---- MODULE Spec2Model ----
(***************************************************************************)
(* Model of the terminal chess session of src/main.py: ChessGame           *)
(* (engine set-up, make_move, computer_move, undo_move, the play loop,      *)
(* show_result, __del__) and main.                                          *)
(*                                                                          *)
(* The rules library (python-chess) is not part of the repository.  It is  *)
(* represented by a small game with the same interface: a board is its     *)
(* move stack plus the side to move; every side owns NumFiles pawns that    *)
(* may each make one double step, a queen that can mate or be traded off,   *)
(* and a knight that can step out and back once the pawns are spent.  The   *)
(* draw thresholds of the library (100 and 150 half-moves, 3 and 5          *)
(* occurrences) are scaled down to FiftyClock, SeventyFiveClock,            *)
(* ThreefoldCount and FivefoldCount.                                        *)
(***************************************************************************)
EXTENDS Integers, Sequences, FiniteSets, TLC

\* ------------------------------------------------------------------ bounds
NumFiles   == 2   \* pawns (files) per side in the stand-in game
MaxPaths   == 2   \* longest candidate list returned by get_stockfish_paths
MaxUndoRun == 2   \* longest run of consecutive 'undo' commands explored
EngineWidth == 2  \* distinct answers the engine may give in one position
ThreefoldCount   == 2   \* occurrences that make a repetition claimable
FivefoldCount    == 3   \* occurrences that end the game
FiftyClock       == 5   \* half-move clock that makes a draw claimable
SeventyFiveClock == 7   \* half-move clock that ends the game

\* --------------------------------------------------------------- constants
None == 0         \* Python's None for the engine handle

VARIABLES
    pc,              \* "setup" | "play" | "exited" | "done"
    args_mode,       \* args.mode, the mode the session was created with
    game_mode,       \* self.game_mode
    nPaths,          \* len(stockfish_paths)
    pathIdx,         \* next candidate path of the for loop in setup_stockfish
    engine,          \* self.engine: None or the id of the process it owns
    procs,           \* engine processes that were launched and not quit
    board,           \* self.board
    move_history,    \* self.move_history
    piece_mode,      \* self.piece_mode
    last_move,       \* local last_move of play
    legal_moves,     \* local legal_moves of play
    lastOp,          \* the operation executed by the last step
    lastText,        \* the text handed to make_move by the last step
    msg,             \* what the last operation reported
    exitReason,      \* how play ended
    quitCalls,       \* number of engine.quit() calls made so far
    engineRequested, \* computer_move has been called at least once
    fellBack,        \* setup_stockfish ran out of candidate paths
    runN,            \* moves on the board when the current undo run began
    runUndos         \* 'undo' commands issued in the current undo run

vars == <<pc, args_mode, game_mode, nPaths, pathIdx, engine, procs, board,
          move_history, piece_mode, last_move, legal_moves, lastOp, lastText,
          msg, exitReason, quitCalls, engineRequested, fellBack, runN,
          runUndos>>

\* ------------------------------------------------------- the rules library
WHITE == "White"
BLACK == "Black"

Other(c) == IF c = WHITE THEN BLACK ELSE WHITE

NoMove == [from_square |-> -1, to_square |-> -1]     \* Python's None
NullMove == [from_square |-> 0, to_square |-> 0]     \* chess.Move.null()
NoList == {NoMove}                                   \* Python's None for a list

\* chess.square(file, rank), files and ranks counted from 1 here
Square(file, rank) == (rank - 1) * 8 + (file - 1)

PawnMove(c, f) ==
    IF c = WHITE
    THEN [from_square |-> Square(f, 2), to_square |-> Square(f, 4)]
    ELSE [from_square |-> Square(f, 7), to_square |-> Square(f, 5)]

QueenMove(c) ==
    IF c = WHITE
    THEN [from_square |-> Square(4, 1), to_square |-> Square(8, 5)]
    ELSE [from_square |-> Square(4, 8), to_square |-> Square(8, 4)]

Files == 1 .. NumFiles

\* The queen takes the other queen: neither side can mate any more
TradeMove(c) ==
    IF c = WHITE
    THEN [from_square |-> Square(4, 1), to_square |-> Square(4, 8)]
    ELSE [from_square |-> Square(4, 8), to_square |-> Square(4, 1)]

KnightOut(c) ==
    IF c = WHITE
    THEN [from_square |-> Square(7, 1), to_square |-> Square(6, 3)]
    ELSE [from_square |-> Square(7, 8), to_square |-> Square(6, 6)]

KnightBack(c) ==
    IF c = WHITE
    THEN [from_square |-> Square(6, 3), to_square |-> Square(7, 1)]
    ELSE [from_square |-> Square(6, 6), to_square |-> Square(7, 8)]

Colors == {WHITE, BLACK}

PawnMoves == {PawnMove(c, f) : c \in Colors, f \in Files}

QueenMoves == {QueenMove(c) : c \in Colors}

TradeMoves == {TradeMove(c) : c \in Colors}

KnightMoves == {KnightOut(c) : c \in Colors} \cup {KnightBack(c) : c \in Colors}

AllMoves == PawnMoves \cup QueenMoves \cup TradeMoves \cup KnightMoves

ColorOf(m) == IF m.from_square < 32 THEN WHITE ELSE BLACK

IsQueenMove(m) == m \in QueenMoves

IsTradeMove(m) == m \in TradeMoves

IsKnightMove(m) == m \in KnightMoves

IsPawnMove(m) == m \in PawnMoves

Last(s) == s[Len(s)]

Front(s) == SubSeq(s, 1, Len(s) - 1)

Range(s) == {s[i] : i \in 1 .. Len(s)}

InitBoard == [stack |-> << >>, turn |-> WHITE]

\* chess.Board.push
Push(b, m) == [stack |-> Append(b.stack, m), turn |-> Other(b.turn)]

\* chess.Board.pop
Pop(b) == [stack |-> Front(b.stack), turn |-> Other(b.turn)]

\* chess.Board.peek
Peek(b) == Last(b.stack)

\* chess.Board.is_checkmate: a queen move mates
IsCheckmate(b) == Len(b.stack) > 0 /\ IsQueenMove(Last(b.stack))

\* The index of the last move of s[1 .. i] that is one of kinds, 0 if none
RECURSIVE LastIndexIn(_, _, _)
LastIndexIn(s, i, kinds) ==
    IF i = 0 THEN 0
    ELSE IF s[i] \in kinds THEN i
    ELSE LastIndexIn(s, i - 1, kinds)

\* The pawns of colour c that have not moved after the moves of s
UnmovedPawns(s, c) ==
    LET played == Range(s) IN {f \in Files : PawnMove(c, f) \notin played}

\* The file of the last pawn move of s, 0 if no pawn has moved
LastPawnFile(s) ==
    LET i == LastIndexIn(s, Len(s), PawnMoves) IN
      IF i = 0 THEN 0 ELSE (s[i].to_square % 8) + 1

\* The knight of colour c is away from home after the moves of s: its last
\* move took it out
KnightIsOut(s, c) ==
    LET i == LastIndexIn(s, Len(s), {KnightOut(c), KnightBack(c)}) IN
      i # 0 /\ s[i] = KnightOut(c)

\* chess.Board.legal_moves.  A pawn steps once.  The queen mates once its
\* own pawn on file 1 has moved and the opposing one has not; it can be
\* traded when both have moved, no knight has moved and the mover still has
\* a pawn to move.  A side without pawns to move shuffles its knight if the
\* last pawn move was on file 2, which leaves the knights room; any other
\* last pawn move locks them in.
LegalMoves(b) ==
    IF IsCheckmate(b) THEN {}
    ELSE
      LET c       == b.turn
          played  == Range(b.stack)
          unmoved == UnmovedPawns(b.stack, c)
          ownA    == PawnMove(c, 1) \in played
          oppA    == PawnMove(Other(c), 1) \in played
      IN  {PawnMove(c, f) : f \in unmoved}
          \cup (IF QueenMove(c) \notin played /\ ownA /\ ~oppA
                THEN {QueenMove(c)} ELSE {})
          \cup (IF /\ ownA
                   /\ oppA
                   /\ unmoved # {}
                   /\ \A x \in played : ~IsTradeMove(x) /\ ~IsKnightMove(x)
                THEN {TradeMove(c)} ELSE {})
          \cup (IF unmoved = {} /\ LastPawnFile(b.stack) = 2
                THEN {IF KnightIsOut(b.stack, c) THEN KnightBack(c)
                      ELSE KnightOut(c)}
                ELSE {})

\* chess.Board.is_stalemate
IsStalemate(b) == ~IsCheckmate(b) /\ LegalMoves(b) = {}

\* chess.Board.is_insufficient_material
IsInsufficientMaterial(b) == \E x \in Range(b.stack) : IsTradeMove(x)

\* Board.halfmove_clock: moves since the last pawn move or capture
HalfmoveClock(s) == Len(s) - LastIndexIn(s, Len(s), PawnMoves \cup TradeMoves)

\* chess.Board.is_fifty_moves / is_seventyfive_moves: the clock has run out
\* and the side to move has a legal move
IsHalfmoves(b, n) == HalfmoveClock(b.stack) >= n /\ LegalMoves(b) # {}

IsFiftyMoves(b) == IsHalfmoves(b, FiftyClock)

IsSeventyfiveMoves(b) == IsHalfmoves(b, SeventyFiveClock)

\* The position reached by the moves of s, as far as repetition goes
PositionOf(s) ==
    [moved |-> {m \in Range(s) : ~IsKnightMove(m)},
     out   |-> {c \in Colors : KnightIsOut(s, c)},
     turn  |-> IF Len(s) % 2 = 0 THEN WHITE ELSE BLACK]

\* chess.Board.is_repetition(count): the position has occurred count times;
\* the library walks back from the current position to the last
\* irreversible move and counts the earlier occurrences, and gives up at
\* once when too few moves lie behind it.  Only a position with the same
\* side to move can be an occurrence.
IsRepetition(b, count) ==
    LET s     == b.stack
        n     == Len(s)
        clock == HalfmoveClock(s)
    IN  /\ clock >= 2 * (count - 1)
        /\ LET now == PositionOf(s)
           IN  1 + Cardinality({i \in (n - clock) .. (n - 1) :
                                  /\ (n - i) % 2 = 0
                                  /\ PositionOf(SubSeq(s, 1, i)) = now})
                   >= count

IsFivefoldRepetition(b) == IsRepetition(b, FivefoldCount)

\* chess.Board.is_game_over with claim_draw left at its default: the
\* fifty-move rule and threefold repetition do not end the game
IsGameOver(b) ==
    \/ IsCheckmate(b)
    \/ IsStalemate(b)
    \/ IsInsufficientMaterial(b)
    \/ IsSeventyfiveMoves(b)
    \/ IsFivefoldRepetition(b)

\* Move text.  A text is a piece letter, a file and a rank ("e4" is a pawn
\* text, "Qh5" a queen text); rank 9 does not exist, so "a9" has no parse;
\* "0000" is the text of the null move.
NullSan == [piece |-> "0", file |-> 0, rank |-> 0]

San(m) ==
    [piece |-> CASE IsQueenMove(m) \/ IsTradeMove(m) -> "Q"
                 [] IsKnightMove(m) -> "N"
                 [] OTHER -> "P",
     file  |-> (m.to_square % 8) + 1,
     rank  |-> (m.to_square \div 8) + 1]

Texts == {San(m) : m \in AllMoves}
         \cup {[piece |-> "P", file |-> 1, rank |-> 9], NullSan}

\* The texts tried at the prompt on board b: the text of every legal move,
\* the first pawn step of either side, a text without a parse, the null move
TextsTried(b) ==
    {San(m) : m \in LegalMoves(b)}
    \cup {San(PawnMove(c, 1)) : c \in Colors}
    \cup (Texts \ {San(m) : m \in AllMoves})

WellFormed(t) ==
    \/ t = NullSan
    \/ t.piece \in {"P", "N", "Q"} /\ t.file \in 1 .. 8 /\ t.rank \in 1 .. 8

\* chess.Board.parse_san: the null move for its text, the legal move the
\* text names, or a ValueError (InvalidMoveError, IllegalMoveError)
ParseSan(b, t) ==
    IF t = NullSan THEN [error |-> "none", move |-> NullMove]
    ELSE IF ~WellFormed(t) THEN [error |-> "InvalidMoveError", move |-> NoMove]
    ELSE IF \E m \in LegalMoves(b) : San(m) = t
         THEN [error |-> "none",
               move |-> CHOOSE m \in LegalMoves(b) : San(m) = t]
         ELSE [error |-> "IllegalMoveError", move |-> NoMove]

\* ------------------------------------------------------------------- Init
Init ==
    /\ args_mode \in {"pvp", "pvc"}
    /\ game_mode = args_mode
    /\ nPaths \in (IF args_mode = "pvc" THEN 0 .. MaxPaths ELSE {0})
    /\ pathIdx = 1
    /\ pc = IF args_mode = "pvc" THEN "setup" ELSE "play"
    /\ engine = None
    /\ procs = {}
    /\ board = InitBoard
    /\ move_history = << >>
    /\ piece_mode = "unicode"
    /\ last_move = NoMove
    /\ legal_moves = NoList
    /\ lastOp = "init"
    /\ lastText = NullSan
    /\ msg = "none"
    /\ exitReason = "none"
    /\ quitCalls = 0
    /\ engineRequested = FALSE
    /\ fellBack = FALSE
    /\ runN = 0
    /\ runUndos = 0

\* ------------------------------------------------------- setup_stockfish
\* One iteration of the for loop of setup_stockfish: popen_uci may raise,
\* configure may raise after popen_uci has stored the new handle in
\* self.engine, or both succeed and the method returns.
\* Processes are numbered in the order they are launched; the locals of
\* setup_stockfish are gone once it returns.
TryPath ==
    /\ pc = "setup"
    /\ pathIdx <= nPaths
    /\ \E outcome \in {"launch_failed", "configure_failed", "ok"} :
         /\ msg' = outcome
         /\ engine' = IF outcome = "launch_failed" THEN engine
                      ELSE Cardinality(procs) + 1
         /\ procs' = IF outcome = "launch_failed" THEN procs
                     ELSE procs \cup {Cardinality(procs) + 1}
         /\ pc' = IF outcome = "ok" THEN "play" ELSE "setup"
         /\ pathIdx' = IF outcome = "ok" THEN 0 ELSE pathIdx + 1
         /\ nPaths' = IF outcome = "ok" THEN 0 ELSE nPaths
    /\ lastOp' = "setup_stockfish"
    /\ UNCHANGED <<args_mode, game_mode, board, move_history,
                   piece_mode, last_move, legal_moves, lastText, exitReason,
                   quitCalls, engineRequested, fellBack, runN, runUndos>>

\* SetupFallback without the assignment self.game_mode = "pvp"
SetupFallbackKeepsMode ==
    /\ pc = "setup"
    /\ pathIdx > nPaths
    /\ fellBack' = TRUE
    /\ msg' = "StockfishNotFound"
    /\ lastOp' = "setup_stockfish"
    /\ pc' = "play"
    /\ nPaths' = 0
    /\ pathIdx' = 0
    /\ UNCHANGED <<args_mode, game_mode, engine, procs, board,
                   move_history, piece_mode, last_move, legal_moves, lastText,
                   exitReason, quitCalls, engineRequested, runN, runUndos>>

\* The for loop is exhausted: default to Player vs Player.
SetupFallback ==
    /\ pc = "setup"
    /\ pathIdx > nPaths
    /\ game_mode' = "pvp"
    /\ fellBack' = TRUE
    /\ msg' = "StockfishNotFound"
    /\ lastOp' = "setup_stockfish"
    /\ pc' = "play"
    /\ nPaths' = 0
    /\ pathIdx' = 0
    /\ UNCHANGED <<args_mode, engine, procs, board,
                   move_history, piece_mode, last_move, legal_moves, lastText,
                   exitReason, quitCalls, engineRequested, runN, runUndos>>

\* ------------------------------------------------------------- play loop
\* Head of the while loop: the loop body runs while the game is not over.
InLoop == pc = "play" /\ ~IsGameOver(board)

\* ComputersTurn without the test of self.game_mode
ComputersTurnAnyMode == board.turn = BLACK

\* The branch of the loop body that asks the engine.
ComputersTurn == game_mode = "pvc" /\ board.turn = BLACK

\* The branch of the loop body that prompts with input().
AtPrompt == ~ComputersTurn /\ InLoop

\* ShowResult with is_repetition tested ahead of is_fifty_moves
ShowResultRepetitionFirst(b) ==
    IF IsCheckmate(b)
    THEN (IF b.turn = WHITE THEN "CheckmateBlackWins" ELSE "CheckmateWhiteWins")
    ELSE IF IsStalemate(b) THEN "Stalemate"
    ELSE IF IsInsufficientMaterial(b) THEN "InsufficientMaterial"
    ELSE IF IsRepetition(b, ThreefoldCount) THEN "Repetition"
    ELSE IF IsFiftyMoves(b) THEN "FiftyMoves"
    ELSE "none"

\* play returns or is left by an exception: its locals are gone, and with
\* them the bookkeeping of the texts and undo runs typed at its prompt
PlayLeft ==
    /\ pc' = "exited"
    /\ last_move' = NoMove
    /\ legal_moves' = NoList
    /\ lastText' = NullSan
    /\ runN' = 0
    /\ runUndos' = 0

\* show_result
ShowResult(b) ==
    IF IsCheckmate(b)
    THEN (IF b.turn = WHITE THEN "CheckmateBlackWins" ELSE "CheckmateWhiteWins")
    ELSE IF IsStalemate(b) THEN "Stalemate"
    ELSE IF IsInsufficientMaterial(b) THEN "InsufficientMaterial"
    ELSE IF IsFiftyMoves(b) THEN "FiftyMoves"
    ELSE IF IsRepetition(b, ThreefoldCount) THEN "Repetition"
    ELSE "none"

\* The while condition fails: Game Over and show_result; play returns.
GameOver ==
    /\ pc = "play"
    /\ IsGameOver(board)
    /\ msg' = ShowResult(board)
    /\ lastOp' = "show_result"
    /\ exitReason' = "terminal"
    /\ PlayLeft
    /\ UNCHANGED <<args_mode, game_mode, nPaths, pathIdx, engine, procs, board,
                   move_history, piece_mode, quitCalls, engineRequested,
                   fellBack>>

\* EngineBoard with self.board.push placed ahead of the failing call
EngineBoardPushesFirst(b, outcome, m) ==
    IF outcome \in {"move", "error"} THEN Push(b, m) ELSE b

\* The board after the try block of computer_move: pushed only when
\* engine.play returned
EngineBoard(b, outcome, m) == IF outcome = "move" THEN Push(b, m) ELSE b

\* The moves engine.play may answer with on board b: legal moves, the
\* EngineWidth ones with the lowest destination squares
EngineChoices(b) ==
    LET legal == LegalMoves(b) IN
      {m \in legal :
         Cardinality({x \in legal : x.to_square < m.to_square}) < EngineWidth}

\* last_move = self.computer_move(); continue.  engine.play answers with a
\* legal move, raises an Exception, or is cut short by KeyboardInterrupt,
\* which no handler of ChessGame catches.
ComputerMove ==
    /\ InLoop
    /\ ComputersTurn
    /\ lastOp' = "computer_move"
    /\ engineRequested' = TRUE
    /\ IF game_mode # "pvc" \/ engine = None
       THEN /\ msg' = "NoEngine"
            /\ last_move' = NoMove
            /\ lastText' = NullSan
            /\ UNCHANGED <<board, pc, exitReason, legal_moves, runN,
                           runUndos>>
       ELSE \E outcome \in {"move", "error", "interrupt"} :
              \E m \in EngineChoices(board) :
                 /\ board' = EngineBoard(board, outcome, m)
                 /\ msg' = CASE outcome = "move" -> "ComputerMoved"
                             [] outcome = "error" -> "ComputerMoveError"
                             [] OTHER -> "Interrupted"
                 /\ IF outcome = "interrupt"
                    THEN exitReason' = "interrupt" /\ PlayLeft
                    ELSE /\ last_move' = IF outcome = "move" THEN m ELSE NoMove
                         /\ lastText' = NullSan
                         /\ UNCHANGED <<pc, exitReason, legal_moves,
                                        runN, runUndos>>
    /\ UNCHANGED <<args_mode, game_mode, nPaths, pathIdx, engine, procs,
                   move_history, piece_mode, quitCalls, fellBack>>

\* 'help': show_help, wait for Enter, continue
Help ==
    /\ AtPrompt
    /\ lastOp' = "help"
    /\ lastText' = NullSan
    /\ msg' = "Help"
    /\ UNCHANGED <<pc, args_mode, game_mode, nPaths, pathIdx, engine, procs,
                   board, move_history, piece_mode, last_move, legal_moves,
                   exitReason, quitCalls, engineRequested, fellBack,
                   runN, runUndos>>

\* 'quit' / 'exit': break, then Game Over and show_result
Quit ==
    /\ AtPrompt
    /\ lastOp' = "quit"
    /\ msg' = ShowResult(board)
    /\ exitReason' = "quit"
    /\ PlayLeft
    /\ UNCHANGED <<args_mode, game_mode, nPaths, pathIdx, engine, procs, board,
                   move_history, piece_mode, quitCalls, engineRequested,
                   fellBack>>

\* KeyboardInterrupt raised inside input(); caught in main
PromptInterrupt ==
    /\ AtPrompt
    /\ lastOp' = "input"
    /\ msg' = "Interrupted"
    /\ exitReason' = "interrupt"
    /\ PlayLeft
    /\ UNCHANGED <<args_mode, game_mode, nPaths, pathIdx, engine, procs, board,
                   move_history, piece_mode, quitCalls, engineRequested,
                   fellBack>>

\* CanUndo testing the board's move stack instead of the history
CanUndoByBoard(h, b) == b.stack # << >>

\* The test of undo_move: if self.move_history
CanUndo(h, b) == h # << >>

\* 'undo': undo_move, continue
Undo ==
    /\ AtPrompt
    /\ runUndos < MaxUndoRun
    /\ lastOp' = "undo"
    /\ IF CanUndo(move_history, board)
       THEN /\ board' = Pop(board)
            /\ move_history' = Front(move_history)
            /\ msg' = "Undone"
       ELSE /\ msg' = "NothingToUndo"
            /\ UNCHANGED <<board, move_history>>
    /\ runN' = IF runUndos = 0 THEN Len(board.stack) ELSE runN
    /\ runUndos' = runUndos + 1
    /\ lastText' = NullSan
    /\ UNCHANGED <<pc, args_mode, game_mode, nPaths, pathIdx, engine, procs,
                   piece_mode, last_move, legal_moves, exitReason,
                   quitCalls, engineRequested, fellBack>>

PieceModes == {"unicode", "letters"}

\* ValidMode with the membership test left out
ValidModeAny(mode) == TRUE

\* The test of the 'pieces' command: if mode in ['unicode', 'letters']
ValidMode(mode) == mode \in PieceModes

\* 'pieces <mode>'
Pieces ==
    /\ AtPrompt
    /\ lastOp' = "pieces"
    /\ lastText' = NullSan
    /\ \E mode \in PieceModes \cup {"ascii"} :
         IF ValidMode(mode)
         THEN piece_mode' = mode /\ msg' = "PieceModeSwitched"
         ELSE piece_mode' = piece_mode /\ msg' = "InvalidPieceMode"
    /\ UNCHANGED <<pc, args_mode, game_mode, nPaths, pathIdx, engine, procs,
                   board, move_history, last_move, legal_moves,
                   exitReason, quitCalls, engineRequested, fellBack, runN,
                   runUndos>>

\* RecordMove without self.move_history.append(move)
RecordMoveSkipped(h, m) == h

\* RecordMove with the append executed twice
RecordMoveTwice(h, m) == Append(Append(h, m), m)

\* self.move_history.append(move) of make_move
RecordMove(h, m) == Append(h, m)

\* LegalAfter with the assignment moved out of 'if move_result'
LegalAfterAlways(cur, ok, b) == LegalMoves(b)

\* legal_moves after make_move: reassigned only if move_result
LegalAfter(cur, ok, b) == IF ok THEN LegalMoves(b) ELSE cur

\* Any other input: move_result = self.make_move(move_input), and on
\* success last_move = self.board.peek(), legal_moves = list(legal_moves).
MakeMove ==
    /\ AtPrompt
    /\ lastOp' = "make_move"
    /\ \E t \in TextsTried(board) :
         LET r == ParseSan(board, t) IN
           /\ lastText' = t
           /\ IF r.error # "none"
              THEN /\ msg' = "InvalidNotation"
                   /\ legal_moves' = LegalAfter(legal_moves, FALSE, board)
                   /\ UNCHANGED <<board, move_history, last_move, runN,
                                  runUndos>>
              ELSE IF r.move \in LegalMoves(board)
              THEN /\ move_history' = RecordMove(move_history, r.move)
                   /\ board' = Push(board, r.move)
                   /\ msg' = "Applied"
                   /\ last_move' = Peek(board')
                   /\ legal_moves' = LegalAfter(legal_moves, TRUE, board')
                   /\ runN' = 0
                   /\ runUndos' = 0
              ELSE /\ msg' = "IllegalMove"
                   /\ legal_moves' = LegalAfter(legal_moves, FALSE, board)
                   /\ UNCHANGED <<board, move_history, last_move, runN,
                                  runUndos>>
    /\ UNCHANGED <<pc, args_mode, game_mode, nPaths, pathIdx, engine, procs,
                   piece_mode, exitReason, quitCalls, engineRequested,
                   fellBack>>

\* ------------------------------------------------------ main and __del__
\* Del with the clean-up reached only when play returns normally
DelSkipsInterrupt ==
    /\ pc = "exited"
    /\ pc' = "done"
    /\ lastOp' = "__del__"
    /\ IF engine # None /\ exitReason # "interrupt"
       THEN quitCalls' = quitCalls + 1 /\ procs' = procs \ {engine}
       ELSE UNCHANGED <<quitCalls, procs>>
    /\ board' = InitBoard
    /\ move_history' = << >>
    /\ UNCHANGED <<args_mode, game_mode, nPaths, pathIdx, engine, piece_mode,
                   last_move, legal_moves, lastText, msg, exitReason,
                   engineRequested, fellBack, runN, runUndos>>

\* play has returned or KeyboardInterrupt was handled: main returns, the
\* last reference to the game goes away, __del__ runs and the game, with
\* its board and history, is gone.
Del ==
    /\ pc = "exited"
    /\ pc' = "done"
    /\ lastOp' = "__del__"
    /\ IF engine # None
       THEN quitCalls' = quitCalls + 1 /\ procs' = procs \ {engine}
       ELSE UNCHANGED <<quitCalls, procs>>
    /\ board' = InitBoard
    /\ move_history' = << >>
    /\ UNCHANGED <<args_mode, game_mode, nPaths, pathIdx, engine, piece_mode,
                   last_move, legal_moves, lastText, msg, exitReason,
                   engineRequested, fellBack, runN, runUndos>>

Next ==
    \/ TryPath
    \/ SetupFallback
    \/ GameOver
    \/ ComputerMove
    \/ Help
    \/ Quit
    \/ PromptInterrupt
    \/ Undo
    \/ Pieces
    \/ MakeMove
    \/ Del

Spec == Init /\ [][Next]_vars

TypeOK ==
    /\ pc \in {"setup", "play", "exited", "done"}
    /\ game_mode \in {"pvp", "pvc"}
    /\ engine \in 0 .. MaxPaths
    /\ board.turn \in {WHITE, BLACK}
    /\ Range(move_history) \subseteq AllMoves

\* ------------------------------------------------------------ properties

\* C1: after a run of undo commands as long as the number of moves that were
\* on the board when the run began, the board is the initial board (White to
\* move, no moves) and the move history is empty.
C1_UndoAllRestoresInitial ==
    (lastOp = "undo" /\ runN > 0 /\ runUndos = runN)
        => (board = InitBoard /\ move_history = << >>)

\* C2: the length of the move history equals the number of moves currently
\* applied to the board.
C2_HistoryLenIsBoardLen == Len(move_history) = Len(board.stack)

\* C3: after an engine move request has failed, the next iteration of the
\* loop prompts the human (for Black) instead of asking the engine again.
C3_HumanPromptedAfterEngineFailure ==
    (pc = "play" /\ lastOp = "computer_move" /\ msg = "ComputerMoveError")
        => AtPrompt

\* C4: an engine move request that returns no move leaves the board, its
\* side to move and the move history as they were.
C4_FailedRequestLeavesBoard ==
    [][(lastOp' = "computer_move" /\ msg' \in {"ComputerMoveError", "NoEngine"})
          => (board' = board /\ move_history' = move_history)]_vars

C4_Witness ==
    /\ lastOp = "computer_move"
    /\ msg = "ComputerMoveError"
    /\ Len(board.stack) = 3
    /\ Len(move_history) = 2

\* C5: once every candidate engine path has failed, the mode is
\* human-vs-human, the session goes on to the game loop, no engine move is
\* ever requested, and every turn of the loop (Black's included) prompts
\* the human.
C5_SetupFailureFallsBack ==
    fellBack =>
        /\ game_mode = "pvp"
        /\ ~engineRequested
        /\ pc \in {"play", "exited", "done"}
        /\ InLoop => AtPrompt

C5_Witness ==
    /\ fellBack
    /\ args_mode = "pvc"
    /\ AtPrompt
    /\ board.turn = BLACK
    /\ Len(move_history) = 3

\* C6: engine.quit() is never called twice; when the session has ended it
\* has been called exactly once if the session holds an engine handle (and
\* then no launched process is left without it), and it is never called
\* while the session is still running.
C6_QuitExactlyOnce ==
    /\ quitCalls <= 1
    /\ pc = "done" => quitCalls = (IF engine # None THEN 1 ELSE 0)
    /\ pc # "done" => quitCalls = 0
    /\ (pc # "done" /\ procs # {}) => engine \in procs

C6_Witness ==
    /\ pc = "done"
    /\ exitReason = "interrupt"
    /\ msg = "Interrupted"
    /\ engineRequested
    /\ engine # None
    /\ quitCalls = 1

\* C7: a rejected move text is reported as IllegalMove exactly when it is
\* well-formed move notation, and as InvalidNotation exactly when it is not.
C7_IllegalDistinctFromInvalid ==
    (lastOp = "make_move" /\ msg # "Applied")
        => /\ WellFormed(lastText) => msg = "IllegalMove"
           /\ ~WellFormed(lastText) => msg = "InvalidNotation"

\* C8: an accepted human move is appended to the move history, pushed on the
\* board, and flips the side to move once; from the start position the side
\* to move becomes Black and the history has length 1.
C8_AcceptedMoveApplied ==
    [][(lastOp' = "make_move" /\ msg' = "Applied")
          => LET m == ParseSan(board, lastText').move IN
               /\ move_history' = Append(move_history, m)
               /\ board'.stack = Append(board.stack, m)
               /\ board'.turn = Other(board.turn)
               /\ board = InitBoard
                    => (board'.turn = BLACK /\ Len(move_history') = 1)]_vars

C8_Witness ==
    /\ lastOp = "make_move"
    /\ msg = "Applied"
    /\ board.turn = BLACK
    /\ Len(board.stack) = 1
    /\ move_history = board.stack

\* C9: a successful undo takes the same move off the board as off the move
\* history.
C9_UndoPopsSameMove ==
    [][(lastOp' = "undo" /\ msg' = "Undone")
          => Peek(board) = Last(move_history)]_vars

\* C10: undo with an empty move history reports NothingToUndo and leaves the
\* board, the side to move and the history unchanged; undo with a non-empty
\* history does not report NothingToUndo.
C10_UndoOnEmptyHistory ==
    [][(lastOp' = "undo")
          => IF move_history = << >>
             THEN /\ msg' = "NothingToUndo"
                  /\ board' = board
                  /\ move_history' = move_history
             ELSE msg' # "NothingToUndo"]_vars

C10_Witness ==
    /\ lastOp = "undo"
    /\ msg = "NothingToUndo"
    /\ move_history = << >>
    /\ Len(board.stack) = 2

\* C11: right after a successful undo the highlights kept for the next
\* render are empty: no last move and no legal-destination squares.
C11_UndoClearsHighlights ==
    (lastOp = "undo" /\ msg = "Undone")
        => (last_move = NoMove /\ legal_moves \in {NoList, {}})

\* C12: no prompt and no engine request is issued while the board is in a
\* terminal condition (checkmate, stalemate, insufficient material,
\* fifty-move, threefold repetition): whenever the loop body is entered,
\* none of the five conditions holds.
C12_NoPromptWhenTerminal ==
    InLoop => ~(\/ IsCheckmate(board)
                \/ IsStalemate(board)
                \/ IsInsufficientMaterial(board)
                \/ IsFiftyMoves(board)
                \/ IsRepetition(board, ThreefoldCount))

\* C13: the reason show_result reports is the first condition that holds in
\* the order checkmate, stalemate, insufficient material, fifty-move,
\* threefold repetition; checkmate and stalemate are never both reported,
\* and a reported checkmate names the colour opposite to the side to move.
C13_ReasonIsFirstInPriority ==
    lastOp \in {"show_result", "quit"} =>
        LET cm == IsCheckmate(board)
            sm == IsStalemate(board)
            im == IsInsufficientMaterial(board)
            fm == IsFiftyMoves(board)
            rp == IsRepetition(board, ThreefoldCount)
        IN  /\ (msg \in {"CheckmateWhiteWins", "CheckmateBlackWins"}) <=> cm
            /\ msg = "CheckmateWhiteWins" => board.turn = BLACK
            /\ msg = "CheckmateBlackWins" => board.turn = WHITE
            /\ msg = "Stalemate" <=> (~cm /\ sm)
            /\ msg = "InsufficientMaterial" <=> (~cm /\ ~sm /\ im)
            /\ msg = "FiftyMoves" <=> (~cm /\ ~sm /\ ~im /\ fm)
            /\ msg = "Repetition" <=> (~cm /\ ~sm /\ ~im /\ ~fm /\ rp)
            /\ msg = "none" <=> ~(cm \/ sm \/ im \/ fm \/ rp)

C13_Witness ==
    /\ lastOp \in {"show_result", "quit"}
    /\ msg = "FiftyMoves"
    /\ IsRepetition(board, ThreefoldCount)

\* C14: a 'pieces' command leaves the board, the side to move, the move
\* history and the mode of play alone; it either switches to one of the two
\* recognized piece modes or reports an invalid mode and keeps the piece
\* mode it had.
C14_PiecesOnlyChangesPieceMode ==
    [][(lastOp' = "pieces")
          => /\ board' = board
             /\ move_history' = move_history
             /\ UNCHANGED <<game_mode, last_move, legal_moves, pc>>
             /\ piece_mode' \in PieceModes
             /\ \/ msg' = "PieceModeSwitched"
                \/ msg' = "InvalidPieceMode" /\ piece_mode' = piece_mode]_vars

C14_Witness ==
    /\ lastOp = "pieces"
    /\ msg = "InvalidPieceMode"
    /\ piece_mode = "letters"
    /\ Len(board.stack) = 2

\* The squares a list of moves highlights: their destination squares
ToSquares(ms) == {m.to_square : m \in ms}

C16_EngineOnlyWhenThinking ==
    [][/\ (lastOp' = "computer_move")
            => (game_mode = "pvc" /\ board.turn = BLACK /\ ~IsGameOver(board))
       /\ (lastOp' \in {"help", "quit", "input", "undo", "pieces", "make_move"})
            => (~(game_mode = "pvc" /\ board.turn = BLACK)
                /\ ~IsGameOver(board))]_vars

C16_Witness ==
    /\ lastOp = "computer_move"
    /\ msg = "ComputerMoved"
    /\ runUndos = 1
    /\ move_history = << >>
    /\ Len(board.stack) = 2

\* C17: while the session runs at most one engine process is live, every
\* live process is the one self.engine holds, and after the fall-back to
\* human-vs-human no engine process is live.
C17_NoOrphanEngine ==
    pc # "done" =>
        /\ Cardinality(procs) <= 1
        /\ procs \subseteq {engine}
        /\ fellBack => procs = {}

\* C18: the move history is never longer than the board's move stack, so
\* whenever undo_move pops, the board has a move to take back.
C18_HistoryWithinBoard ==
    /\ Len(move_history) <= Len(board.stack)
    /\ CanUndo(move_history, board) => board.stack # << >>

C18_Witness ==
    /\ lastOp = "undo"
    /\ msg = "Undone"
    /\ move_history = << >>
    /\ Len(board.stack) = 1

\* C19: a rejected move text leaves the board, the side to move, the move
\* history and the kept highlights unchanged, and the loop goes on to prompt
\* the same side.
C19_RejectedMoveChangesNothing ==
    [][(lastOp' = "make_move" /\ msg' \in {"InvalidNotation", "IllegalMove"})
          => /\ board' = board
             /\ move_history' = move_history
             /\ last_move' = last_move
             /\ legal_moves' = legal_moves
             /\ AtPrompt'
             /\ game_mode' = game_mode]_vars

C19_Witness ==
    /\ lastOp = "make_move"
    /\ msg = "InvalidNotation"
    /\ WellFormed(lastText)
    /\ Len(board.stack) = 1
    /\ AtPrompt

====
